---- MODULE Spec2Model ----
(***************************************************************************)
(* Model of the chart front-end: App (src/src/App.js) fetches an answer    *)
(* for a query and hands its chart_type / chart_config to ChartComponent   *)
(* (src/src/components/ChartComponent.js), which cleans the config up      *)
(* (safeChartConfig) and picks what to draw (renderChart).                 *)
(*                                                                         *)
(* JavaScript values are tagged records: the tag t is the value's type,    *)
(* an object carries its own properties as further fields, and a property  *)
(* an object does not have is a field the record does not have.  An        *)
(* exception is the value TypeError(message).                              *)
(***************************************************************************)
EXTENDS Integers, Sequences, FiniteSets, TLC

\* ---------------------------------------------------------------- bounds
\* Longest `data` array of an input series.
MaxData == 2
\* Longest `labels` array of an input chart config.
MaxLabels == 2
\* Most series in the `datasets` of an input chart config.
MaxSeries == 2
\* Largest value Math.random() is taken to give a colour channel (really 254).
MaxChannel == 1
\* Largest hue Math.random() is taken to give in fetchData (really 359).
MaxHue == 1
\* Most /ask requests sent in one run of App.
MaxRequests == 2

\* ------------------------------------------------------ JavaScript values
Undefined == [t |-> "undefined"]
Null == [t |-> "null"]
Str(s) == [t |-> "string", v |-> s]
Num(n) == [t |-> "number", v |-> n]
Arr(a) == [t |-> "array", v |-> a]
Bool(b) == [t |-> "boolean", v |-> b]
TypeError(msg) == [t |-> "throw", message |-> msg]

IsThrow(x) == x.t = "throw"
IsNullish(x) == x.t \in {"undefined", "null"}
IsArray(x) == x.t = "array"
\* ToBoolean: undefined, null, false, "" and 0 are falsy; arrays and objects
\* are truthy.
Truthy(x) == ~(IsNullish(x) \/ x = Bool(FALSE) \/ x = Str("") \/ x = Num(0))
\* x.f for a non-nullish x: a primitive or an object without f gives undefined.
Get(x, f) == IF x.t = "object" /\ f \in DOMAIN x THEN x[f] ELSE Undefined
\* a[i] for a JavaScript array a and a 0-based index i.
At(a, i) == IF i + 1 \in 1..Len(a.v) THEN a.v[i + 1] ELSE Undefined
\* The own enumerable properties { ...o } copies: those of an object, the
\* elements of an array and the characters of a string under their indices
\* "0", "1", ..., and none of a number, a boolean, null or undefined.
OwnProperties(o) ==
  IF o.t = "object" THEN o
  ELSE IF o.t = "array"
  THEN [f \in {"t"} \cup {ToString(i - 1) : i \in 1..Len(o.v)} |->
          IF f = "t" THEN "object"
          ELSE o.v[CHOOSE i \in 1..Len(o.v) : ToString(i - 1) = f]]
  ELSE IF o.t = "string"
  THEN [f \in {"t"} \cup {ToString(i - 1) : i \in 1..Len(o.v)} |->
          IF f = "t" THEN "object"
          ELSE LET i == CHOOSE i \in 1..Len(o.v) : ToString(i - 1) = f
               IN Str(SubSeq(o.v, i, i))]
  ELSE [t |-> "object"]
\* { ...o, ...upd }: the properties of upd on top of those of o.
Spread(o, upd) ==
  LET base == OwnProperties(o)
  IN [f \in DOMAIN base \cup DOMAIN upd |->
        IF f \in DOMAIN upd THEN upd[f] ELSE base[f]]
\* x ?? d
Coalesce(x, d) == IF IsNullish(x) THEN d ELSE x
\* The TypeError of reading property f of the nullish value x.
CannotRead(x, f) ==
  TypeError("Cannot read properties of " \o x.t \o " (reading '" \o f \o "')")

\* --------------------------------------------------- conversion for x > 0
Char(s, i) == SubSeq(s, i, i)
IsOneOf(c, alphabet) == \E i \in 1..Len(alphabet) : Char(alphabet, i) = c
AllOf(s, alphabet) == \A i \in 1..Len(s) : IsOneOf(Char(s, i), alphabet)
Positions(s, alphabet) == {i \in 1..Len(s) : IsOneOf(Char(s, i), alphabet)}
Least(S) == CHOOSE m \in S : \A n \in S : m <= n
Greatest(S) == CHOOSE m \in S : \A n \in S : n <= m
\* The characters the model knows: those of ASCII from U+0001 on (but for
\* the grave accent, which no string here can hold).  Any other character
\* is one it cannot tell from another: it may be white space (as U+00A0 or
\* U+2028 are) or not (as a letter is).
Ascii ==
  "\t\n\f\r"
  \o " !\"#$%&'()*+,-./0123456789:;<=>?@ABCDEFGHIJKLMNO"
  \o "PQRSTUVWXYZ[\\]^_abcdefghijklmnopqrstuvwxyz{|}~"
Foreign(c) == ~IsOneOf(c, Ascii)
\* The white space of ASCII a numeric string may have at its ends
\* (StrWhiteSpaceChar): space, tab, line feed, form feed, carriage return
\* and the vertical tab U+000B, written as the character itself.
WhiteSpace == " \t\n\f\r"
\* s without the white space at its ends; blank tells whether the
\* characters the model does not know are white space.
Trim(s, blank) ==
  LET kept == {i \in 1..Len(s) :
                 /\ ~IsOneOf(Char(s, i), WhiteSpace)
                 /\ ~(blank /\ Foreign(Char(s, i)))}
  IN IF kept = {} THEN "" ELSE SubSeq(s, Least(kept), Greatest(kept))
DigitValue(c) == CHOOSE d \in 0..9 : ToString(d) = c
\* The number a string of decimal digits denotes, as far as 1000000.
NatOf(digits) ==
  LET value[k \in 0..Len(digits)] ==
        IF k = 0 THEN 0
        ELSE IF value[k - 1] >= 1000000 THEN 1000000
        ELSE value[k - 1] * 10 + DigitValue(Char(digits, k))
  IN value[Len(digits)]
\* The digits of 2^-1075, which is 0.247...e-323: half the smallest
\* positive number.  A literal denotes a positive number when it is above it.
HalfOfSmallest ==
  "2470328229206232720882843964341106861825299013071623822127928412"
  \o "5033775363510437593264991818081799618989828234772285886546332835"
  \o "5177969898199387398005390939063150356595155702263922908583924491"
  \o "0518443593180284993653615250031937045767824921936562366986365848"
  \o "0757001585769269903706311928279558551332927834338409351978015531"
  \o "2465972635795746227664652728272200563740064854999770965994704540"
  \o "2082816622623785739345073633900796776193057750674017632467360096"
  \o "8951340535537458516661134223766678604162159680461914467291840300"
  \o "5300575308490487653917113865916462395249126236538818796362393732"
  \o "8042389101867234849766823508986338858792562830275599565752445550"
  \o "7255189313690836254779186948667994968324049705821028513185451396"
  \o "213837722826145437693412532098591327667236328125"
\* Whether 0.a is above 0.b, for strings of digits a and b.
AboveFraction(a, b) ==
  LET digit(x, i) == IF i <= Len(x) THEN DigitValue(Char(x, i)) ELSE 0
      n == IF Len(a) > Len(b) THEN Len(a) ELSE Len(b)
  IN \E i \in 1..n :
       /\ digit(a, i) > digit(b, i)
       /\ \A j \in 1..(i - 1) : digit(a, j) = digit(b, j)
\* Whether the digits `whole`.`fraction` times ten to the `exponent` denote
\* a number that is not rounded to 0.
NotRoundedToZero(whole, fraction, exponent) ==
  LET all == whole \o fraction
      nonzero == (1..Len(all)) \ Positions(all, "0")
      first == Least(nonzero)
      magnitude == Len(whole) - first + exponent
  IN /\ nonzero # {}
     /\ \/ magnitude >= -323
        \/ /\ magnitude = -324
           /\ AboveFraction(SubSeq(all, first, Len(all)), HalfOfSmallest)
\* Whether the unsigned decimal literal u (StrUnsignedDecimalLiteral)
\* denotes a positive number: Infinity, or digits with at most one point
\* and an optional exponent part.
PositiveDecimal(u) ==
  LET es == Positions(u, "eE")
      mantissa == IF es = {} THEN u ELSE SubSeq(u, 1, Least(es) - 1)
      power == IF es = {} THEN "" ELSE SubSeq(u, Least(es) + 1, Len(u))
      negative == Len(power) > 0 /\ Char(power, 1) = "-"
      unsignedPower == IF Len(power) > 0 /\ IsOneOf(Char(power, 1), "+-")
                       THEN SubSeq(power, 2, Len(power)) ELSE power
      points == Positions(mantissa, ".")
      whole == IF points = {} THEN mantissa ELSE SubSeq(mantissa, 1, Least(points) - 1)
      fraction == IF points = {} THEN ""
                  ELSE SubSeq(mantissa, Least(points) + 1, Len(mantissa))
  IN \/ u = "Infinity"
     \/ /\ Cardinality(es) <= 1
        /\ es # {} => (unsignedPower # "" /\ AllOf(unsignedPower, "0123456789"))
        /\ Cardinality(points) <= 1
        /\ AllOf(whole, "0123456789") /\ AllOf(fraction, "0123456789")
        /\ whole \o fraction # ""
        /\ NotRoundedToZero(whole, fraction,
                            IF es = {} THEN 0
                            ELSE IF negative THEN 0 - NatOf(unsignedPower)
                            ELSE NatOf(unsignedPower))
\* Whether the digits of a literal with the prefix 0x, 0o or 0b denote a
\* positive number.
PositiveInRadix(digits, alphabet) ==
  digits # "" /\ AllOf(digits, alphabet) /\ ~AllOf(digits, "0")
\* Whether Number(s) > 0 for a string s (StringToNumber): white space is
\* trimmed, "" is 0, and what is no numeric literal is NaN.
PositiveString(s, blank) ==
  LET u == Trim(s, blank)
      rest == SubSeq(u, 3, Len(u))
  IN IF Len(u) >= 2 /\ Char(u, 1) = "0" /\ IsOneOf(Char(u, 2), "xX")
     THEN PositiveInRadix(rest, "0123456789abcdefABCDEF")
     ELSE IF Len(u) >= 2 /\ Char(u, 1) = "0" /\ IsOneOf(Char(u, 2), "oO")
     THEN PositiveInRadix(rest, "01234567")
     ELSE IF Len(u) >= 2 /\ Char(u, 1) = "0" /\ IsOneOf(Char(u, 2), "bB")
     THEN PositiveInRadix(rest, "01")
     ELSE IF Len(u) >= 1 /\ Char(u, 1) = "-" THEN FALSE
     ELSE IF Len(u) >= 1 /\ Char(u, 1) = "+" THEN PositiveDecimal(SubSeq(u, 2, Len(u)))
     ELSE PositiveDecimal(u)

CannotConvert == TypeError("Cannot convert object to primitive value")
\* String(x): an array is its elements joined by commas, null and undefined
\* among them as nothing; an object is "[object Object]", unless it has a
\* toString of its own, which no value of a response can be called as.
RECURSIVE ToJsString(_)
ToJsString(x) ==
  IF x.t = "string" THEN x
  ELSE IF x.t = "number" THEN Str(ToString(x.v))
  ELSE IF x.t = "boolean" THEN Str(IF x.v THEN "true" ELSE "false")
  ELSE IF IsNullish(x) THEN Str(x.t)
  ELSE IF x.t = "object"
  THEN IF "toString" \in DOMAIN x THEN CannotConvert ELSE Str("[object Object]")
  ELSE LET part(i) == IF IsNullish(x.v[i]) THEN Str("") ELSE ToJsString(x.v[i])
           joined[k \in 0..Len(x.v)] ==
             IF k = 0 THEN Str("")
             ELSE IF IsThrow(joined[k - 1]) THEN joined[k - 1]
             ELSE IF IsThrow(part(k)) THEN part(k)
             ELSE Str(joined[k - 1].v \o (IF k = 1 THEN "" ELSE ",") \o part(k).v)
       IN joined[Len(x.v)]

\* x > 0: true or false, or the TypeError of converting x to a number.
GreaterThanZero(x, blank) ==
  IF x.t = "number" THEN Bool(x.v > 0)
  ELSE IF x.t = "boolean" THEN x
  ELSE IF IsNullish(x) THEN Bool(FALSE)
  ELSE IF IsThrow(ToJsString(x)) THEN ToJsString(x)
  ELSE Bool(PositiveString(ToJsString(x).v, blank))

\* ---------------------------------------------------------- ChartComponent
\* The three draws of one call of randomColor: floor(Math.random() * 255)
\* for each channel, each on its own.
Channels == [r : 0..MaxChannel, g : 0..MaxChannel, b : 0..MaxChannel]

randomColor(alpha, rnd) ==
  Str("rgba(" \o ToString(rnd.r) \o ", " \o ToString(rnd.g) \o ", "
        \o ToString(rnd.b) \o ", " \o alpha \o ")")

\* safeLabels with the generated labels running one past the data (i <= length).
safeLabelsOnePast(chartConfig) ==
  IF IsArray(Get(chartConfig, "labels")) THEN Get(chartConfig, "labels")
  ELSE LET first == At(Get(chartConfig, "datasets"), 0)
           data == IF IsNullish(first) THEN Undefined ELSE Get(first, "data")
       IN IF IsNullish(data) THEN Arr(<<>>)
          ELSE IF IsArray(data)
               THEN Arr([i \in 1..(Len(data.v) + 1) |-> Str("Label " \o ToString(i))])
          ELSE TypeError("chartConfig.datasets[0]?.data?.map is not a function")

\* labels of safeChartConfig: chartConfig.labels when it is an array, else
\* chartConfig.datasets[0]?.data?.map((_, i) => `Label ${i + 1}`) || [].
\* The optional chain stops at a nullish datasets[0] or data; a data that is
\* neither nullish nor an array has no map, and calling it throws.
safeLabels(chartConfig) ==
  IF IsArray(Get(chartConfig, "labels")) THEN Get(chartConfig, "labels")
  ELSE LET first == At(Get(chartConfig, "datasets"), 0)
           data == IF IsNullish(first) THEN Undefined ELSE Get(first, "data")
       IN IF IsNullish(data) THEN Arr(<<>>)
          ELSE IF IsArray(data)
               THEN Arr([i \in 1..Len(data.v) |-> Str("Label " \o ToString(i))])
          ELSE TypeError("chartConfig.datasets[0]?.data?.map is not a function")

\* The filter predicate: Array.isArray(ds.data) && ds.data.length > 0.
validSeries(ds) == IsArray(Get(ds, "data")) /\ Len(Get(ds, "data").v) > 0

\* The calls of randomColor the map callback makes for the background of
\* one series: none when it has its own, one for a line chart, else one per
\* label.
backgroundCalls(ds, labels, chartType) ==
  IF Truthy(Get(ds, "backgroundColor")) THEN 0
  ELSE IF chartType = Str("line") THEN 1
  ELSE Len(labels.v)
\* All its calls: those, then one for the border unless the series has its own.
colorCalls(ds, labels, chartType) ==
  backgroundCalls(ds, labels, chartType)
  + (IF Truthy(Get(ds, "borderColor")) THEN 0 ELSE 1)

\* The map callback of safeChartConfig; rnd holds the draws of its calls of
\* randomColor, in the order of the calls.
safeSeries(ds, labels, chartType, rnd) ==
  LET bgColor ==
        IF Truthy(Get(ds, "backgroundColor")) THEN Get(ds, "backgroundColor")
        ELSE IF chartType = Str("line") THEN randomColor("0.2", rnd[1])
        ELSE Arr([i \in 1..Len(labels.v) |-> randomColor("0.6", rnd[i])])
  IN Spread(ds,
       [label |-> IF Truthy(Get(ds, "label")) THEN Get(ds, "label") ELSE Str("Series"),
        backgroundColor |-> bgColor,
        borderColor |-> IF Truthy(Get(ds, "borderColor")) THEN Get(ds, "borderColor")
                        ELSE randomColor("1", rnd[Len(rnd)])])

\* The series that pass the filter of safeChartConfig (none when it returns
\* or throws before the filter is done).
keptSeries(chartConfig) ==
  IF ~Truthy(chartConfig) \/ ~IsArray(Get(chartConfig, "datasets")) THEN <<>>
  ELSE IF IsThrow(safeLabels(chartConfig)) THEN <<>>
  ELSE IF \E i \in 1..Len(Get(chartConfig, "datasets").v) :
            IsNullish(Get(chartConfig, "datasets").v[i])
  THEN <<>>
  ELSE SelectSeq(Get(chartConfig, "datasets").v, validSeries)

\* The calls of randomColor made for the first n kept series.
callsUpTo(chartConfig, chartType, n) ==
  LET kept == keptSeries(chartConfig)
      labels == safeLabels(chartConfig)
      count[k \in 0..n] ==
        IF k = 0 THEN 0 ELSE count[k - 1] + colorCalls(kept[k], labels, chartType)
  IN count[n]

\* The calls of randomColor in one run of the useMemo body.
randomCalls(chartConfig, chartType) ==
  callsUpTo(chartConfig, chartType, Len(keptSeries(chartConfig)))

\* The useMemo body: null, a { labels, datasets } object, or the TypeError
\* thrown; rnd holds the draws of all its calls of randomColor, in order.
safeChartConfig(chartConfig, chartType, rnd) ==
  IF ~Truthy(chartConfig) \/ ~IsArray(Get(chartConfig, "datasets")) THEN Null
  ELSE
    LET labels == safeLabels(chartConfig)
        raw == Get(chartConfig, "datasets").v
    IN IF IsThrow(labels) THEN labels
       ELSE IF \E i \in 1..Len(raw) : IsNullish(raw[i])
            THEN CannotRead(raw[Least({i \in 1..Len(raw) : IsNullish(raw[i])})], "data")
       ELSE
         LET kept == SelectSeq(raw, validSeries)
             datasets == [i \in 1..Len(kept) |->
                            safeSeries(kept[i], labels, chartType,
                                       SubSeq(rnd,
                                              callsUpTo(chartConfig, chartType, i - 1) + 1,
                                              callsUpTo(chartConfig, chartType, i)))]
         IN IF Len(kept) = 0 THEN Null
            ELSE [t |-> "object", labels |-> labels, datasets |-> Arr(datasets)]

\* chartOptions, as far as it depends on chartType: the title and whether
\* the x/y scales are present.
chartOptions(chartType) ==
  [title |-> "Data Visualization", scales |-> chartType # Str("pie")]

defaultChart(chartType) ==
  [el |-> "Line",
   data |-> [t |-> "object",
             labels |-> Arr(<<Str("A"), Str("B"), Str("C"), Str("D")>>),
             datasets |-> Arr(<<[t |-> "object",
                                 label |-> Str("Default Data"),
                                 data |-> Arr(<<Num(10), Num(20), Num(15), Num(30)>>),
                                 borderColor |-> Str("rgba(75, 192, 192, 1)"),
                                 backgroundColor |-> Str("rgba(75, 192, 192, 0.2)"),
                                 fill |-> Bool(TRUE)]>>)],
   options |-> [chartOptions(chartType) EXCEPT
                  !.title = "Default Chart (No Valid Data)"]]

\* tableCell with || in place of ??: a falsy value is replaced too.
tableCellOr(ds, rowIndex) ==
  IF Truthy(At(Get(ds, "data"), rowIndex)) THEN At(Get(ds, "data"), rowIndex)
  ELSE Str("N/A")

\* One body cell of the table: ds.data[rowIndex] ?? "N/A".
tableCell(ds, rowIndex) == Coalesce(At(Get(ds, "data"), rowIndex), Str("N/A"))

\* One body row of the table: the label, then one cell per series.
tableRow(safe, rowIndex) ==
  <<safe.labels.v[rowIndex + 1]>> \o
  [c \in 1..Len(safe.datasets.v) |-> tableCell(safe.datasets.v[c], rowIndex)]

renderTable(safe) ==
  IF ~Truthy(safe) THEN [el |-> "div", text |-> "No table data available"]
  ELSE [el |-> "table",
        head |-> <<Str("Category")>> \o
                 [i \in 1..Len(safe.datasets.v) |-> Get(safe.datasets.v[i], "label")],
        rows |-> [r \in 1..Len(safe.labels.v) |-> tableRow(safe, r - 1)]]

\* The restyling of the series labelled "Forecast" in a line chart.
forecastSeries(ds) ==
  IF Get(ds, "label") = Str("Forecast")
  THEN Spread(ds, [borderDash |-> Arr(<<Num(6), Num(6)>>),
                   pointRadius |-> Num(5),
                   pointBackgroundColor |-> Str("red"),
                   fill |-> Bool(TRUE),
                   backgroundColor |-> Str("rgba(255,99,132,0.2)")])
  ELSE ds

\* The condition of the line case: some series is labelled History or Forecast.
hasForecastLabels(safe) ==
  \E i \in 1..Len(safe.datasets.v) :
    Get(safe.datasets.v[i], "label") \in {Str("History"), Str("Forecast")}

\* The branches of the switch in renderChart.
renderKind(safe, chartType) ==
  CASE chartType = Str("bar") ->
         [el |-> "Bar", data |-> safe, options |-> chartOptions(chartType)]
    [] chartType = Str("line") ->
         IF hasForecastLabels(safe)
         THEN [el |-> "Line",
               data |-> [safe EXCEPT !.datasets =
                           Arr([i \in 1..Len(safe.datasets.v) |->
                                  forecastSeries(safe.datasets.v[i])])],
               options |-> chartOptions(chartType)]
         ELSE [el |-> "Line", data |-> safe, options |-> chartOptions(chartType)]
    [] chartType = Str("pie") ->
         [el |-> "Pie", data |-> safe, options |-> chartOptions(chartType)]
    [] chartType = Str("table") -> renderTable(safe)
    [] OTHER -> defaultChart(chartType)

\* renderChart with the table case taken before the check of the config.
renderChartTableFirst(safe, chartType) ==
  IF chartType = Str("table") THEN renderTable(safe)
  ELSE IF ~Truthy(safe) THEN defaultChart(chartType)
  ELSE renderKind(safe, chartType)

renderChart(safe, chartType) ==
  IF ~Truthy(safe) THEN defaultChart(chartType)
  ELSE renderKind(safe, chartType)

\* ------------------------------------------------------------------- App
\* The sample-query buttons and one query typed into the textarea.
SampleQueries ==
  {"Show me total sales per category",
   "List top 10 customers by total orders",
   "What are the monthly sales trends?"}
TypedQueries == {"Show product sales by region"}
InitialQuery == "Show me total sales per category"

\* x.length: that of an array or a string, else the object's own property.
Length(x) ==
  IF IsArray(x) THEN Num(Len(x.v))
  ELSE IF x.t = "string" THEN Num(Len(x.v))
  ELSE Get(x, "length")

hslColor(hue) == Str("hsl(" \o ToString(hue) \o ", 70%, 60%)")

\* Whether the callback of datasets.map in fetchData draws hues for ds: it
\* has no background of its own and labels can be mapped.
drawsHues(ds, labels) ==
  ~IsNullish(ds) /\ ~Truthy(Get(ds, "backgroundColor")) /\ IsArray(labels)

\* The callback of datasets.map in fetchData, for one series ds; hues holds
\* the draws of its calls of Math.random, one per label.
colorSeries(ds, labels, hues) ==
  IF IsNullish(ds) THEN CannotRead(ds, "backgroundColor")
  ELSE IF Truthy(Get(ds, "backgroundColor"))
  THEN Spread(ds, [backgroundColor |-> Get(ds, "backgroundColor")])
  ELSE IF IsNullish(labels) THEN CannotRead(labels, "map")
  ELSE IF ~IsArray(labels)
  THEN TypeError("data.chart_config.labels.map is not a function")
  ELSE Spread(ds, [backgroundColor |->
                     Arr([i \in 1..Len(labels.v) |-> hslColor(hues[i])])])

\* The condition of the colour step, data.chart_config?.datasets?.length > 0:
\* true or false, or the TypeError thrown on the way.
hasDatasets(data, blank) ==
  IF IsNullish(data) THEN CannotRead(data, "chart_config")
  ELSE LET cc == Get(data, "chart_config")
           datasets == IF IsNullish(cc) THEN Undefined ELSE Get(cc, "datasets")
           len == IF IsNullish(datasets) THEN Undefined ELSE Length(datasets)
       IN GreaterThanZero(len, blank)

\* Whether fetchData enters its colour step and maps the datasets.
mapsDatasets(data, blank) ==
  /\ hasDatasets(data, blank) = Bool(TRUE)
  /\ IsArray(Get(Get(data, "chart_config"), "datasets"))

\* The hues drawn for the first n series of the colour step.
huesUpTo(data, n) ==
  LET cc == Get(data, "chart_config")
      labels == Get(cc, "labels")
  IN IF IsArray(labels)
     THEN Len(labels.v)
          * Cardinality({i \in 1..n : drawsHues(Get(cc, "datasets").v[i], labels)})
     ELSE 0

\* The entries datasets.map visits: all, or those up to the first that is
\* null or undefined, where the callback throws.
visited(datasets) ==
  LET nullish == {i \in 1..Len(datasets.v) : IsNullish(datasets.v[i])}
  IN IF nullish = {} THEN Len(datasets.v) ELSE Least(nullish)

\* What the characters of `data` the model does not know may be, as far as
\* the colour step goes: white space or not, when that makes a difference.
Readings(data) ==
  IF hasDatasets(data, TRUE) = hasDatasets(data, FALSE) THEN {FALSE} ELSE BOOLEAN

\* The calls of Math.random in one run of the colour step.
hueCalls(data, blank) ==
  IF mapsDatasets(data, blank)
  THEN huesUpTo(data, visited(Get(Get(data, "chart_config"), "datasets")))
  ELSE 0

\* The colour step of fetchData on response.data: the data with its
\* chart_config.datasets replaced, or the TypeError thrown on the way; hues
\* holds the draws of its calls of Math.random, in order.
colorDatasets(data, hues, blank) ==
  IF IsThrow(hasDatasets(data, blank)) THEN hasDatasets(data, blank)
  ELSE IF hasDatasets(data, blank) = Bool(FALSE) THEN data
  ELSE
    LET cc == Get(data, "chart_config")
        datasets == Get(cc, "datasets")
    IN IF ~IsArray(datasets)
       THEN TypeError("data.chart_config.datasets.map is not a function")
       ELSE
         LET mapped == [i \in 1..visited(datasets) |->
                          colorSeries(datasets.v[i], Get(cc, "labels"),
                                      SubSeq(hues, huesUpTo(data, i - 1) + 1,
                                             huesUpTo(data, i)))]
             thrown == {i \in 1..Len(mapped) : IsThrow(mapped[i])}
         IN IF thrown # {}
            THEN mapped[Least(thrown)]
            ELSE Spread(data, [chart_config |-> Spread(cc, [datasets |-> Arr(mapped)])])

\* The object fetchData passes to setConversation.
newConversation(userQuery, data) ==
  [t |-> "object",
   user |-> [t |-> "object", text |-> Str(userQuery)],
   bot |-> [t |-> "object",
            text |-> Get(data, "answer"),
            chartType |-> Get(data, "chart_type"),
            chartConfig |-> IF Truthy(Get(data, "chart_config"))
                            THEN Get(data, "chart_config") ELSE Null,
            sql |-> Get(data, "sql"),
            raw |-> Get(data, "result")]]

networkError == TypeError("Network Error")
errorText(err) == Str("Failed to fetch data: " \o err.message)

\* ---------------------------------------------------------------- inputs
\* An object literal: the properties of fields that are not Absent.
Absent == [t |-> "absent"]
Object(fields) ==
  [f \in {"t"} \cup {g \in DOMAIN fields : fields[g] # Absent} |->
     IF f = "t" THEN "object" ELSE fields[f]]
\* All sequences over S of length at most n.
SeqUpTo(S, n) == UNION {[1..k -> S] : k \in 0..n}

\* data: missing, not a sequence, or the numbers 0, 10, 20, ... (the empty one too).
DataOf(n) == Arr([i \in 1..n |-> Num(10 * (i - 1))])
DataShapes == {Absent, Num(5)} \cup {DataOf(n) : n \in 0..MaxData}
SeriesLabels == {Absent, Str(""), Str("History"), Str("Forecast")}
\* The entries of datasets: a null entry, or a series with one of the data
\* shapes and colours of its own.  The labels of a chart's series alternate
\* between the two of a pair.
EntryShapes == {Null} \cup DataShapes
seriesAt(pair, shape, i) ==
  IF shape = Null THEN Null
  ELSE Object([label |-> IF i % 2 = 1 THEN pair[1] ELSE pair[2], data |-> shape,
               backgroundColor |-> Str("red"), borderColor |-> Str("blue")])
DatasetsArrays ==
  {Arr([i \in 1..Len(shapes) |-> seriesAt(pair, shapes[i], i)]) :
     pair \in SeriesLabels \X SeriesLabels,
     shapes \in SeqUpTo(EntryShapes, MaxSeries)}
LabelsOf(n) == Arr([i \in 1..n |-> Str("Q" \o ToString(i))])
LabelsShapes == {Absent, Str("Q1,Q2")} \cup {LabelsOf(n) : n \in 0..MaxLabels}
DatasetsShapes == {Absent, Str("abc")} \cup DatasetsArrays
\* The chartConfig prop: absent, null, or a raw chart spec.
ColoredConfigs ==
  {Object([labels |-> l, datasets |-> d]) : l \in LabelsShapes, d \in DatasetsShapes}
\* Chart specs of one series that leaves a colour to ChartComponent: its
\* background, its border, or both; under two labels or under none.
UncoloredSeries ==
  {Object([label |-> Str("Forecast"), data |-> Arr(<<Num(0)>>),
           backgroundColor |-> bg, borderColor |-> border]) :
     bg \in {Absent, Str("red")}, border \in {Absent, Str("blue")}}
  \ {Object([label |-> Str("Forecast"), data |-> Arr(<<Num(0)>>),
             backgroundColor |-> Str("red"), borderColor |-> Str("blue")])}
UncoloredConfigs ==
  {Object([labels |-> l, datasets |-> Arr(<<s>>)]) :
     l \in {Absent, Arr(<<Str("Q1"), Str("Q2")>>)}, s \in UncoloredSeries}
ChartConfigs == {Undefined, Null} \cup ColoredConfigs \cup UncoloredConfigs
\* The chartType prop: the four kinds, an unknown kind, and none.
ChartTypes ==
  {Str("bar"), Str("line"), Str("pie"), Str("table"), Str("scatter"), Undefined}

\* What the answering service sends App: a few chart configs, of every shape
\* the colour step of fetchData tells apart, as bar charts, and a well-formed
\* one as a table too.
ResponseSeries ==
  {Null,
   Object([label |-> Str("History"), data |-> DataOf(1)]),
   Object([label |-> Str("History"), data |-> DataOf(1), backgroundColor |-> Str("red")]),
   Object([label |-> Str("History"), data |-> Num(5), backgroundColor |-> Str("red")])}
ResponseConfigs ==
  {Absent, Bool(FALSE)} \cup
  {Object([labels |-> l, datasets |-> d]) :
     l \in {Absent, LabelsOf(1)},
     d \in {Arr(<<>>)} \cup {Arr(<<s>>) : s \in ResponseSeries}} \cup
  {Object([labels |-> LabelsOf(1), datasets |-> Object([length |-> len])]) :
     len \in {Num(1), Str("3"), Arr(<<Num(5)>>), Object([toString |-> Num(1)])}} \cup
  {Object([labels |-> Null, datasets |-> Arr(<<s>>)]) :
     s \in {Object([label |-> Str("History"), data |-> DataOf(1)])}}
WellFormedConfig ==
  Object([labels |-> LabelsOf(1),
          datasets |-> Arr(<<Object([label |-> Str("History"), data |-> DataOf(1)])>>)])
\* The same with a label that is an object.
ObjectLabelConfig ==
  Object([labels |-> Arr(<<Object([name |-> Str("Q1")])>>),
          datasets |-> Arr(<<Object([label |-> Str("History"), data |-> DataOf(1)])>>)])
response(kind, config, sql) ==
  Object([answer |-> Str("Here is the answer"), chart_type |-> kind,
          chart_config |-> config, sql |-> sql, result |-> Arr(<<>>)])
\* A body that is null, and tables whose sql or label is an object, too.
Responses ==
  {response(Str("bar"), c, Str("SELECT 1")) : c \in ResponseConfigs} \cup
  {response(Str("table"), WellFormedConfig, Str("SELECT 1")),
   response(Str("table"), WellFormedConfig, Object([text |-> Str("SELECT 1")])),
   response(Str("table"), ObjectLabelConfig, Str("SELECT 1")),
   Null}

\* ----------------------------------------------------------------- state
VARIABLES
  conversation,  \* App: null, or the one query and its response
  loading,       \* App: the loading flag
  error,         \* App: null, or the error message shown
  query,         \* App: the text of the textarea
  mounted,       \* App: whether the mount effect has run
  crashed,       \* whether a render threw (nothing catches it: the tree is gone)
  toRender,      \* what was set since the last render: "none", "flags", "chart"
  disabled,      \* the disabled attribute of the submit button, as last rendered
  requests,      \* the queries posted to /ask so far, in order
  pending,       \* the indices in requests of the posts not yet settled
  chartMounted,  \* whether a ChartComponent is rendered
  chartType,     \* ChartComponent: the chartType prop
  chartConfig,   \* ChartComponent: the chartConfig prop
  safe,          \* ChartComponent: the memoised safeChartConfig
  plan           \* what is drawn in the chart section

appVars ==
  <<conversation, loading, error, query, mounted, crashed, toRender, disabled,
    requests, pending>>
chartVars == <<chartMounted, chartType, chartConfig, safe, plan>>
vars == <<appVars, chartVars>>

NotRendered == [el |-> "none"]
NoChart == [el |-> "p", text |-> "No chart available for this query."]

\* --------------------------------------------- ChartComponent on its own
\* One render of ChartComponent with the given props: the memo, then
\* renderChart; a throw inside the memo ends the render.
ChartComponent(type, config, rnd) ==
  LET memo == safeChartConfig(config, type, rnd)
  IN [safe |-> memo,
      plan |-> IF IsThrow(memo) THEN memo ELSE renderChart(memo, type)]

InitApp ==
  /\ conversation = Null
  /\ loading = FALSE
  /\ error = Null
  /\ query = InitialQuery
  /\ mounted = FALSE
  /\ crashed = FALSE
  /\ toRender = "none"
  /\ disabled = FALSE
  /\ requests = <<>>
  /\ pending = {}

InitChart ==
  /\ InitApp
  /\ chartMounted = FALSE
  /\ chartType \in ChartTypes
  /\ chartConfig \in ChartConfigs
  /\ safe = Undefined
  /\ plan = NotRendered

RenderChartComponent ==
  /\ ~chartMounted
  /\ \E rnd \in [1..randomCalls(chartConfig, chartType) -> Channels] :
       LET out == ChartComponent(chartType, chartConfig, rnd)
       IN /\ safe' = out.safe
          /\ plan' = out.plan
  /\ chartMounted' = TRUE
  /\ UNCHANGED <<chartType, chartConfig, appVars>>

NextChart == RenderChartComponent

SpecChart == InitChart /\ [][NextChart]_vars

\* ------------------------------------------------------------------- App
\* The part of fetchData before the await: the flags, then the post; and
\* that `calls` times in a row.
fetchData(userQuery, calls) ==
  /\ loading' = TRUE
  /\ error' = Null
  /\ requests' = requests \o [k \in 1..calls |-> userQuery]
  /\ pending' = pending \cup ((Len(requests) + 1)..(Len(requests) + calls))

Init ==
  /\ InitApp
  /\ chartMounted = FALSE
  /\ chartType = Undefined
  /\ chartConfig = Undefined
  /\ safe = Undefined
  /\ plan = NotRendered

\* What is left to render once flags were set outside an event handler.
withFlags(left) == IF left = "chart" THEN "chart" ELSE "flags"

\* How often React runs a mount effect of an App inside StrictMode: once
\* in a production build, twice in a development build.
EffectRuns == {1, 2}

\* The mount effect: fetchData(query), as often as the build runs it.  The
\* flags it sets are rendered later.
Mount(runs) ==
  /\ ~mounted /\ ~crashed
  /\ mounted' = TRUE
  /\ Len(requests) + runs <= MaxRequests
  /\ fetchData(query, runs)
  /\ toRender' = withFlags(toRender)
  /\ UNCHANGED <<conversation, query, crashed, disabled, chartVars>>

\* onChange of the textarea.
SetQuery(q) ==
  /\ mounted /\ ~crashed
  /\ q # query
  /\ query' = q
  /\ UNCHANGED <<conversation, loading, error, mounted, crashed, toRender, disabled,
                 requests, pending, chartVars>>

\* handleQuerySubmit: setQuery, then fetchData.  The flags set in the click
\* handler are rendered as the handler returns, which disables the submit
\* button; what was set before the click stays to be rendered.
handleQuerySubmit(newQuery) ==
  /\ query' = newQuery
  /\ fetchData(newQuery, 1)
  /\ disabled' = TRUE
  /\ UNCHANGED <<conversation, mounted, crashed, toRender, chartVars>>

\* A click on the submit button, which the last render left enabled.
SubmitClick ==
  /\ mounted /\ ~crashed
  /\ Len(requests) < MaxRequests
  /\ ~disabled
  /\ handleQuerySubmit(query)

\* A click on a sample-query button; nothing disables these.
SampleClick(q) ==
  /\ mounted /\ ~crashed
  /\ Len(requests) < MaxRequests
  /\ handleQuerySubmit(q)

\* The post of request i resolves with `data`: the rest of the try block,
\* the catch when the colour step throws, and the finally.  The render
\* comes later.
Respond(i, data, hues, blank) ==
  /\ ~crashed
  /\ i \in pending
  /\ pending' = pending \ {i}
  /\ loading' = FALSE
  /\ LET colored == colorDatasets(data, hues, blank)
     IN IF IsThrow(colored)
        THEN /\ error' = errorText(colored)
             /\ conversation' = conversation
             /\ toRender' = withFlags(toRender)
        ELSE /\ conversation' = newConversation(requests[i], colored)
             /\ error' = error
             /\ toRender' = "chart"
  /\ UNCHANGED <<query, mounted, crashed, disabled, requests, chartVars>>

\* The post of request i rejects: the catch and the finally.
Fail(i) ==
  /\ ~crashed
  /\ i \in pending
  /\ pending' = pending \ {i}
  /\ loading' = FALSE
  /\ error' = errorText(networkError)
  /\ toRender' = withFlags(toRender)
  /\ UNCHANGED <<conversation, query, mounted, crashed, disabled, requests,
                 chartVars>>

\* The calls of randomColor in a render of the chart section for conv.
renderCalls(conv) ==
  IF Truthy(conv.bot.chartConfig)
  THEN randomCalls(conv.bot.chartConfig, conv.bot.chartType)
  ELSE 0

\* Whether React can render x as a child: an object is none, an array is
\* one when its elements are.
RECURSIVE RenderableChild(_)
RenderableChild(x) ==
  IF x.t = "object" THEN FALSE
  ELSE IF IsArray(x) THEN \A i \in 1..Len(x.v) : RenderableChild(x.v[i])
  ELSE TRUE

\* Whether React can render what renderChart returned: the header cells and
\* the body cells of a table are children that have to be renderable.
RenderablePlan(drawn) ==
  drawn.el = "table" =>
    /\ \A i \in 1..Len(drawn.head) : RenderableChild(drawn.head[i])
    /\ \A r \in 1..Len(drawn.rows) :
         \A c \in 1..Len(drawn.rows[r]) : RenderableChild(drawn.rows[r][c])

\* The chart section for the conversation conv: a ChartComponent and the
\* sql when conv.bot.chartConfig is truthy, else the paragraph.  A throw
\* inside ChartComponent, or of React at a table cell or a sql it cannot
\* render, is caught by nothing.
RenderChartSection(conv, rnd) ==
  IF Truthy(conv.bot.chartConfig)
  THEN LET out == ChartComponent(conv.bot.chartType, conv.bot.chartConfig, rnd)
       IN /\ chartMounted' = TRUE
          /\ chartType' = conv.bot.chartType
          /\ chartConfig' = conv.bot.chartConfig
          /\ safe' = out.safe
          /\ plan' = out.plan
          /\ crashed' = \/ IsThrow(out.safe)
                         \/ ~RenderablePlan(out.plan)
                         \/ ~RenderableChild(conv.bot.sql)
  ELSE /\ chartMounted' = FALSE
       /\ chartType' = Undefined
       /\ chartConfig' = Undefined
       /\ safe' = Undefined
       /\ plan' = NoChart
       /\ crashed' = FALSE

\* The render of App with the state as it is now: the submit button, and,
\* when a conversation was set since the last render, the chart section
\* with a fresh memo.
Render ==
  /\ mounted /\ ~crashed
  /\ toRender # "none"
  /\ toRender' = "none"
  /\ disabled' = loading
  /\ IF toRender = "chart"
     THEN \E rnd \in [1..renderCalls(conversation) -> Channels] :
            RenderChartSection(conversation, rnd)
     ELSE UNCHANGED <<crashed, chartVars>>
  /\ UNCHANGED <<conversation, loading, error, query, mounted, requests, pending>>

Next ==
  \/ \E runs \in EffectRuns : Mount(runs)
  \/ \E q \in SampleQueries \cup TypedQueries : SetQuery(q)
  \/ SubmitClick
  \/ \E q \in SampleQueries : SampleClick(q)
  \/ \E i \in pending, data \in Responses :
       \E blank \in Readings(data) :
         \E hues \in [1..hueCalls(data, blank) -> 0..MaxHue] :
           Respond(i, data, hues, blank)
  \/ \E i \in pending : Fail(i)
  \/ Render

Spec == Init /\ [][Next]_vars

\* ---------------------------------------------------------------- claims
\* The words of the claims, stated on the props and on what was rendered.
IsConfig(x) == x.t = "object"
ChartKinds == {Str("bar"), Str("line"), Str("pie"), Str("table")}
\* A series whose data is a non-empty sequence.
UsableSeries(s) ==
  /\ s.t = "object"
  /\ "data" \in DOMAIN s
  /\ s.data.t = "array"
  /\ Len(s.data.v) > 0
\* A series whose data is missing, not a sequence, or empty.
UnusableSeries(s) == s.t = "object" /\ ~UsableSeries(s)
HasDatasetsArray(c) == IsConfig(c) /\ "datasets" \in DOMAIN c /\ c.datasets.t = "array"
HasLabelsArray(c) == IsConfig(c) /\ "labels" \in DOMAIN c /\ c.labels.t = "array"
\* A raw chart spec normalize has to reject.
Rejected(c) ==
  \/ c \in {Undefined, Null}
  \/ ~HasDatasetsArray(c)
  \/ \A i \in 1..Len(c.datasets.v) : UnusableSeries(c.datasets.v[i])
\* A raw chart spec with at least one valid series.
Accepted(c) ==
  /\ HasDatasetsArray(c)
  /\ \E i \in 1..Len(c.datasets.v) : UsableSeries(c.datasets.v[i])
MaxOf(S) == IF S = {} THEN 0 ELSE CHOOSE m \in S : \A n \in S : n <= m
\* The longest data of the series of a normalized config.
LongestData(cfg) ==
  MaxOf({Len(cfg.datasets.v[i].data.v) : i \in 1..Len(cfg.datasets.v)})
NumberedLabels(n) == Arr([i \in 1..n |-> Str("Label " \o ToString(i))])

\* C1: a raw chart spec that is absent, has no datasets sequence, or has only
\* series without usable data, is normalized to null, for every chart kind.
C1_FailsClosed ==
  (chartMounted /\ Rejected(chartConfig)) => safe = Null

\* C2: whatever response arrives, App ends with something drawn: no render
\* throws, and the only error ever shown is that of a failed request.
C2_NothingFatal ==
  /\ ~crashed
  /\ error \in {Null, errorText(networkError)}

\* C3: a raw chart spec with a valid series is normalized to a config whose
\* series are exactly the valid input series, in order, data unchanged, each
\* labelled with its non-blank input label or else "Series".
C3_ValidSeriesKept ==
  (chartMounted /\ Accepted(chartConfig)) =>
    /\ IsConfig(safe)
    /\ LET kept == SelectSeq(chartConfig.datasets.v, UsableSeries)
           out == safe.datasets.v
       IN /\ Len(out) = Len(kept)
          /\ Len(out) > 0
          /\ \A i \in 1..Len(out) :
               /\ out[i].data = kept[i].data
               /\ out[i].label.t = "string"
               /\ out[i].label.v # ""
               /\ out[i].label =
                    IF "label" \in DOMAIN kept[i] /\ kept[i].label # Str("")
                    THEN kept[i].label ELSE Str("Series")

\* C4: the normalized labels are raw.labels when that is a sequence, and
\* otherwise "Label 1" .. "Label n", n the data length of the first
\* surviving series.
C4_LabelsResolved ==
  (chartMounted /\ IsConfig(safe)) =>
    safe.labels =
      IF HasLabelsArray(chartConfig) THEN chartConfig.labels
      ELSE NumberedLabels(Len(safe.datasets.v[1].data.v))

\* C5: when the normalized config is null, for every kind (table too), and
\* when the kind is none of bar/line/pie/table, what is drawn is the fallback:
\* a line chart of 10, 20, 15, 30 over A, B, C, D.
C5_Fallback ==
  (chartMounted /\ ~IsThrow(safe) /\ (safe = Null \/ chartType \notin ChartKinds)) =>
    /\ plan.el = "Line"
    /\ plan.data.labels = Arr(<<Str("A"), Str("B"), Str("C"), Str("D")>>)
    /\ Len(plan.data.datasets.v) = 1
    /\ plan.data.datasets.v[1].data = Arr(<<Num(10), Num(20), Num(15), Num(30)>>)

\* C5 happens: a table was asked for, the config was rejected, and the
\* fallback line chart is drawn.
C5_Witness ==
  /\ chartMounted
  /\ chartType = Str("table")
  /\ safe = Null
  /\ plan.el = "Line"

\* C6: in a line chart a series is restyled only if it is labelled "Forecast"
\* and a series labelled "History" is in the config too; every other series
\* is drawn as normalized.
C6_ForecastNeedsHistory ==
  (chartMounted /\ chartType = Str("line") /\ IsConfig(safe)) =>
    /\ plan.el = "Line"
    /\ \A i \in 1..Len(safe.datasets.v) :
         plan.data.datasets.v[i] # safe.datasets.v[i] =>
           /\ safe.datasets.v[i].label = Str("Forecast")
           /\ \E j \in 1..Len(safe.datasets.v) :
                safe.datasets.v[j].label = Str("History")

\* C7: a table of a valid config has one row per label and one column per
\* series after the label column; a cell is the series' value in that row, or
\* "N/A" where the series has none.
C7_TableGrid ==
  (chartMounted /\ chartType = Str("table") /\ IsConfig(safe)) =>
    /\ plan.el = "table"
    /\ Len(plan.rows) = Len(safe.labels.v)
    /\ \A r \in 1..Len(plan.rows) :
         /\ Len(plan.rows[r]) = 1 + Len(safe.datasets.v)
         /\ \A c \in 1..Len(safe.datasets.v) :
              plan.rows[r][c + 1] =
                IF r <= Len(safe.datasets.v[c].data.v)
                THEN safe.datasets.v[c].data.v[r]
                ELSE Str("N/A")

\* C7 happens: a table with a series shorter than the labels, and a value 0
\* shown as itself.
C7_Witness ==
  /\ chartMounted
  /\ chartType = Str("table")
  /\ IsConfig(safe)
  /\ plan.el = "table"
  /\ \E r \in 1..Len(plan.rows), c \in 1..Len(safe.datasets.v) :
       /\ r > Len(safe.datasets.v[c].data.v)
       /\ plan.rows[r][c + 1] = Str("N/A")
  /\ \E r \in 1..Len(plan.rows), c \in 1..Len(safe.datasets.v) :
       plan.rows[r][c + 1] = Num(0)

\* C8 as stated: in a normalized config there are as many labels as the
\* longest series has data.
C8_LabelsMatchLongest ==
  (chartMounted /\ IsConfig(safe)) => Len(safe.labels.v) = LongestData(safe)

\* C8 as amended: labels the input supplies are kept as they are, whatever
\* their number; generated labels never outnumber the data of the longest
\* normalized series.
C8_LabelsVerbatimOrWithin ==
  (chartMounted /\ IsConfig(safe)) =>
    IF HasLabelsArray(chartConfig) THEN safe.labels = chartConfig.labels
    ELSE Len(safe.labels.v) <= LongestData(safe)

\* C8 happens: supplied labels outnumber the data of every series, and are
\* kept.
C8_Witness ==
  /\ chartMounted
  /\ IsConfig(safe)
  /\ HasLabelsArray(chartConfig)
  /\ Len(safe.labels.v) > LongestData(safe)

\* C9: once no request is in flight and everything set is rendered, the
\* conversation shown is that of the query submitted last.
C9_LastSubmittedShown ==
  (pending = {} /\ toRender = "none" /\ conversation # Null /\ error = Null
     /\ ~crashed) =>
    conversation.user.text = Str(requests[Len(requests)])

\* C10: loading is true exactly while a request is in flight.
C10_LoadingWhileInFlight ==
  loading <=> (pending # {})

====
